---- MODULE Spec2Model ----
(***************************************************************************)
(* Model of google.colab.drive.mount (src/google/colab/drive.py).          *)
(*                                                                         *)
(* The driver is the body of mount(), one action per blocking statement    *)
(* (each d.expect, the getpass call) and per send.  The session is the     *)
(* pseudo-terminal with its echo, the bash process spawned at line 68, the *)
(* in-shell success watcher of lines 106-109 and the drive binary launched *)
(* at lines 113-118.  The output stream is a sequence of tokens; a token   *)
(* carries the texts the patterns of the driver can find in it.            *)
(***************************************************************************)
EXTENDS Integers, Sequences, FiniteSets, TLC

\* ------------------------------------------------------------------ bounds
\* How many authorization-URL lines the drive binary prints at most.
MaxAuth == 2

\* ------------------------------------------------------- inputs (small sets)
Home == <<"root">>
MountPoints == {<<"~", "drive">>, <<"content", "drive">>}
URLs == {"url1", "url2"}
Secrets == {"code1"}

\* os.path.expanduser: a leading "~" component is replaced by $HOME.
expanduser(p) ==
  IF p # <<>> /\ p[1] = "~" THEN Home \o Tail(p) ELSE p

\* --------------------------------------------------------------- file system
\* State of the (expanded) mountpoint path.  link: the path itself is a
\* symlink; kind: what the path resolves to; content: what a directory
\* holds; fuse: the directory is a live drive mount (umount uncovers an
\* empty directory).
FsStates ==
  { r \in [link : BOOLEAN, kind : {"absent", "file", "dir"},
           content : {"empty", "other", "mydrive"}, fuse : BOOLEAN] :
      /\ (r.kind # "dir" => r.content = "empty")
      /\ (r.fuse => r.content = "mydrive") }

islink(f) == f.link
isdir(f) == f.kind = "dir"
exists(f) == f.kind # "absent"
listdir(f) == IF f.content = "empty" THEN {} ELSE {f.content}
\* os.path.isdir(os.path.join(mountpoint, 'My Drive'))
already_mounted(f) == isdir(f) /\ f.content = "mydrive"

ConfigDirStates == {"absent", "dir", "file"}

\* ------------------------------------------------------------------ patterns
\* A pattern is the text it looks for.  The expected-prompt variable of the
\* driver holds either the PS1 marker of line 67 or, after line 133, the
\* getpass message built from a captured URL.
Marker == <<"marker">>
AuthMsg(u) == <<"authmsg", u>>
success == <<"success">>
PkillPat == <<"pkill">>
StoppedPat == <<"Stopped">>
UrlRe == <<"urlre">>

\* ------------------------------------------------------------ stream tokens
\* The echo of a sent line.  Where a pattern of the driver occurs inside the
\* echoed text (the marker in the export line, "pkill" in the cleanup line)
\* the rest of the echoed line follows the match as a token of its own.
EchoHead(c) == [t |-> "echo", a |-> c.cmd]
EchoTail(c) == [t |-> "echotail", a |-> c.cmd]
EchoOf(c) ==
  IF c.cmd \in {"export", "cleanup"}
  THEN <<EchoHead(c), EchoTail(c)>>
  ELSE <<EchoHead(c)>>
PromptTok == [t |-> "prompt", a |-> ""]
BootTok == [t |-> "bootprompt", a |-> ""]
OutTok(x) == [t |-> "out", a |-> x]
UrlTok(u) == [t |-> "url", a |-> u]

IsEcho(tok) == tok.t \in {"echo", "echotail"}

\* Does the pattern occur in the text of the token?
\*  - the echo of the export command (line 81) contains the marker;
\*  - the echo of the cleanup command (line 87) contains "pkill";
\*  - the echo of the watcher command (lines 106-109) contains the success
\*    string, as does the line the watcher prints;
\*  - the getpass message ("...\n\nEnter your authorization code:\n") is
\*    never part of terminal output.
Matches(pat, tok) ==
  CASE pat = Marker -> tok = PromptTok \/ (tok.t = "echo" /\ tok.a = "export")
    [] pat = PkillPat -> tok.t = "echo" /\ tok.a = "cleanup"
    [] pat = success -> (tok.t = "echo" /\ tok.a = "watcher")
                          \/ tok = OutTok("success")
    [] pat = StoppedPat -> tok = OutTok("stopped")
    [] pat = UrlRe -> tok.t = "url"
    [] OTHER -> FALSE

MatchesAny(pats, tok) == \E j \in 1..Len(pats) : Matches(pats[j], tok)

\* pexpect: the earliest match in the stream wins; 0 when there is none.
FirstMatch(b, pats) ==
  IF \E i \in 1..Len(b) : MatchesAny(pats, b[i])
  THEN CHOOSE i \in 1..Len(b) :
         /\ MatchesAny(pats, b[i])
         /\ \A k \in 1..(i - 1) : ~MatchesAny(pats, b[k])
  ELSE 0

\* Index (0-based, as d.expect returns it) of the pattern that matched.
CaseOf(pats, tok) ==
  (CHOOSE j \in 1..Len(pats) :
     /\ Matches(pats[j], tok)
     /\ \A k \in 1..(j - 1) : ~Matches(pats[k], tok)) - 1

\* What is left of the stream after a match at position i.
After(b, i) == SubSeq(b, i + 1, Len(b))

\* ----------------------------------------------------------------- commands
Cmd(c, arg, nl) == [cmd |-> c, arg |-> arg, nl |-> nl]
ExportCmd == Cmd("export", Marker, TRUE)
CleanupCmd(m) == Cmd("cleanup", m, TRUE)
WatcherCmd(m) == Cmd("watcher", m, TRUE)
LaunchCmd(m) == Cmd("launch", m, TRUE)
SecretCmd(s) == Cmd("secret", <<s>>, TRUE)
CtrlZ == Cmd("ctrlz", <<>>, FALSE)
BgCmd == Cmd("bg", <<>>, TRUE)

AlreadyMountedMsg(m) == [kind |-> "already", mnt |-> m]
MountedMsg(m) == [kind |-> "mounted", mnt |-> m]

VARIABLES
  \* inputs of the call
  mountpoint, force_remount,
  \* the driver
  pc, prompt, err, out, sent, getpassCalls, urlMatches, lastUrl, successAt,
  exitstatus, terminated,
  \* what ^Z met: "yes" when drive was the running foreground job
  fgAtSuspend,
  \* the session
  spawned, buf, inq, eof, alive,
  \* the environment
  fs, configDir, sh, shStatus, drv, job, wat, urlsEmitted

drvVars == <<pc, prompt, err, out, sent, getpassCalls, urlMatches, lastUrl,
             successAt, exitstatus, terminated, fgAtSuspend>>
inVars == <<mountpoint, force_remount>>
envVars == <<fs, configDir, sh, shStatus, drv, job, wat, urlsEmitted>>
vars == <<mountpoint, force_remount, pc, prompt, err, out, sent,
          getpassCalls, urlMatches, lastUrl, successAt, exitstatus,
          terminated, fgAtSuspend, spawned, buf, inq, eof, alive, fs,
          configDir, sh, shStatus, drv, job, wat, urlsEmitted>>

Init ==
  /\ mountpoint \in MountPoints
  /\ force_remount \in BOOLEAN
  /\ fs \in FsStates
  /\ configDir \in ConfigDirStates
  /\ pc = "start"
  /\ prompt = Marker
  /\ err = "none"
  /\ out = <<>>
  /\ sent = <<>>
  /\ getpassCalls = <<>>
  /\ urlMatches = 0
  /\ lastUrl = ""
  /\ successAt = -1
  /\ fgAtSuspend = "unset"
  /\ exitstatus = -1
  /\ terminated = FALSE
  /\ spawned = FALSE
  /\ buf = <<>>
  /\ inq = <<>>
  /\ eof = FALSE
  /\ alive = FALSE
  /\ sh = "none"
  /\ shStatus = -1
  /\ drv = "none"
  /\ job = "none"
  /\ wat = "none"
  /\ urlsEmitted = 0


\* ------------------------------------------------------------------ helpers
hist == <<getpassCalls, urlMatches, lastUrl, successAt, fgAtSuspend>>

ExpectPcs == {"expect_echo", "expect_prompt1", "expect_pkill",
              "expect_prompt2", "expect_prompt3", "await", "expect_stopped",
              "expect_eof"}

\* The patterns of the d.expect call the driver is blocked in.
Watched ==
  CASE pc \in {"expect_echo", "expect_prompt1", "expect_prompt2",
               "expect_prompt3"} -> <<prompt>>
    [] pc = "expect_pkill" -> <<PkillPat>>
    [] pc = "await" -> <<success, prompt, UrlRe>>
    [] pc = "expect_stopped" -> <<StoppedPat>>
    [] OTHER -> <<>>

HasMatch == FirstMatch(buf, Watched) # 0
MatchedTok == buf[FirstMatch(buf, Watched)]
MatchedCase == CaseOf(Watched, MatchedTok)
\* d.expect returns: everything up to the end of the match is consumed.
Consume == buf' = After(buf, FirstMatch(buf, Watched))

\* d.send / d.sendline: the terminal echoes the text into the output stream
\* at once (when echo is on); a text that ends in a newline is a line in the
\* terminal's input queue.
Send(c, echoed) ==
  /\ sent' = Append(sent, c)
  /\ IF eof
     THEN buf' = buf /\ inq' = inq
     ELSE /\ buf' = IF echoed THEN buf \o EchoOf(c) ELSE buf
          /\ inq' = IF c.nl THEN Append(inq, c) ELSE inq

\* d.terminate(force=True): the shell is killed and reaped.
Terminate ==
  /\ terminated' = TRUE
  /\ alive' = FALSE
  /\ eof' = TRUE
  /\ sh' = "exited"
  /\ shStatus' = IF alive THEN -9 ELSE shStatus

DriveAlive == drv \in {"starting", "waitcode", "serving"}

\* Mutant: the config directory is made before the already-mounted check.
MountEntryMkdirFirst ==
  /\ pc = "start"
  /\ mountpoint' = expanduser(mountpoint)
  /\ IF configDir = "file"
     THEN /\ err' = "config_dir must be a directory if present"
          /\ pc' = "raised"
          /\ UNCHANGED <<out, configDir, spawned, alive, sh>>
     ELSE IF ~force_remount /\ already_mounted(fs)
     THEN /\ configDir' = "dir"
          /\ out' = Append(out, AlreadyMountedMsg(expanduser(mountpoint)))
          /\ pc' = "done"
          /\ UNCHANGED <<err, spawned, alive, sh>>
     ELSE /\ configDir' = "dir"
          /\ spawned' = TRUE
          /\ alive' = TRUE
          /\ sh' = "boot"
          /\ pc' = "send_export"
          /\ UNCHANGED <<err, out>>
  /\ UNCHANGED <<force_remount, prompt, sent, hist, exitstatus, terminated,
                 buf, inq, eof, fs, shStatus, drv, job, wat, urlsEmitted>>

\* ------------------------------------------------------------------- driver
\* Lines 35-80: the already-mounted short-circuit, the config directory and
\* the spawn of /bin/bash.
MountEntry ==
  /\ pc = "start"
  /\ mountpoint' = expanduser(mountpoint)
  /\ IF ~force_remount /\ already_mounted(fs)
     THEN /\ out' = Append(out, AlreadyMountedMsg(expanduser(mountpoint)))
          /\ pc' = "done"
          /\ UNCHANGED <<err, configDir, spawned, alive, sh>>
     ELSE IF configDir = "file"
     THEN /\ err' = "config_dir must be a directory if present"
          /\ pc' = "raised"
          /\ UNCHANGED <<out, configDir, spawned, alive, sh>>
     ELSE /\ configDir' = "dir"
          /\ spawned' = TRUE
          /\ alive' = TRUE
          /\ sh' = "boot"
          /\ pc' = "send_export"
          /\ UNCHANGED <<err, out>>
  /\ UNCHANGED <<force_remount, prompt, sent, hist, exitstatus, terminated,
                 buf, inq, eof, fs, shStatus, drv, job, wat, urlsEmitted>>

\* Line 81.
SendExport ==
  /\ pc = "send_export"
  /\ Send(ExportCmd, TRUE)
  /\ pc' = "expect_echo"
  /\ UNCHANGED <<inVars, prompt, err, out, hist, exitstatus, terminated,
                 spawned, eof, alive, envVars>>

\* Mutant: the prompt is watched for once, not twice, after the export.
ExpectEchoOnly ==
  /\ pc = "expect_echo"
  /\ HasMatch
  /\ Consume
  /\ pc' = "send_cleanup"
  /\ UNCHANGED <<inVars, prompt, err, out, sent, hist, exitstatus,
                 terminated, spawned, inq, eof, alive, envVars>>

\* Line 82: the echoed input.
ExpectEcho ==
  /\ pc = "expect_echo"
  /\ HasMatch
  /\ Consume
  /\ pc' = "expect_prompt1"
  /\ UNCHANGED <<inVars, prompt, err, out, sent, hist, exitstatus,
                 terminated, spawned, inq, eof, alive, envVars>>

\* Mutant: the mountpoint is checked before the cleanup command is sent.
ExpectPrompt1ThenValidate ==
  /\ pc = "expect_prompt1"
  /\ HasMatch
  /\ Consume
  /\ pc' = "validate"
  /\ UNCHANGED <<inVars, prompt, err, out, sent, hist, exitstatus,
                 terminated, spawned, inq, eof, alive, envVars>>

\* Line 83: the new prompt.
ExpectPrompt1 ==
  /\ pc = "expect_prompt1"
  /\ HasMatch
  /\ Consume
  /\ pc' = "send_cleanup"
  /\ UNCHANGED <<inVars, prompt, err, out, sent, hist, exitstatus,
                 terminated, spawned, inq, eof, alive, envVars>>

\* Lines 87-88.
SendCleanup ==
  /\ pc = "send_cleanup"
  /\ Send(CleanupCmd(mountpoint), TRUE)
  /\ pc' = "expect_pkill"
  /\ UNCHANGED <<inVars, prompt, err, out, hist, exitstatus, terminated,
                 spawned, eof, alive, envVars>>

\* Line 90: the echoed command.
ExpectPkill ==
  /\ pc = "expect_pkill"
  /\ HasMatch
  /\ Consume
  /\ pc' = "expect_prompt2"
  /\ UNCHANGED <<inVars, prompt, err, out, sent, hist, exitstatus,
                 terminated, spawned, inq, eof, alive, envVars>>

\* Line 91.
ExpectPrompt2 ==
  /\ pc = "expect_prompt2"
  /\ HasMatch
  /\ Consume
  /\ pc' = "validate"
  /\ UNCHANGED <<inVars, prompt, err, out, sent, hist, exitstatus,
                 terminated, spawned, inq, eof, alive, envVars>>

\* Mutant: the symlink check is left out.
ValidationErrorNoSymlink ==
  IF isdir(fs) /\ listdir(fs) # {}
  THEN "Mountpoint must not already contain files"
  ELSE IF ~isdir(fs) /\ exists(fs)
  THEN "Mountpoint must either be a directory or not exist"
  ELSE "none"

\* Lines 93-102: the mountpoint checks; any exception terminates the shell.
ValidationError ==
  IF islink(fs) THEN "Mountpoint must not be a symlink"
  ELSE IF isdir(fs) /\ listdir(fs) # {}
  THEN "Mountpoint must not already contain files"
  ELSE IF ~isdir(fs) /\ exists(fs)
  THEN "Mountpoint must either be a directory or not exist"
  ELSE "none"

Validate ==
  /\ pc = "validate"
  /\ IF ValidationError # "none"
     THEN /\ Terminate
          /\ err' = ValidationError
          /\ pc' = "raised"
     ELSE /\ pc' = "send_watcher"
          /\ UNCHANGED <<err, terminated, alive, eof, sh, shStatus>>
  /\ UNCHANGED <<inVars, prompt, out, sent, hist, exitstatus, spawned, buf,
                 inq, fs, configDir, drv, job, wat, urlsEmitted>>

\* Lines 105-110.
SendWatcher ==
  /\ pc = "send_watcher"
  /\ Send(WatcherCmd(mountpoint), TRUE)
  /\ pc' = "expect_prompt3"
  /\ UNCHANGED <<inVars, prompt, err, out, hist, exitstatus, terminated,
                 spawned, eof, alive, envVars>>

\* Mutant: the watch after the watcher command is left out.
ExpectPrompt3Skipped ==
  /\ pc = "expect_prompt3"
  /\ pc' = "send_launch"
  /\ UNCHANGED <<inVars, prompt, err, out, sent, hist, exitstatus,
                 terminated, spawned, buf, inq, eof, alive, envVars>>

\* Line 111.
ExpectPrompt3 ==
  /\ pc = "expect_prompt3"
  /\ HasMatch
  /\ Consume
  /\ pc' = "send_launch"
  /\ UNCHANGED <<inVars, prompt, err, out, sent, hist, exitstatus,
                 terminated, spawned, inq, eof, alive, envVars>>

\* Lines 112-118.
SendLaunch ==
  /\ pc = "send_launch"
  /\ Send(LaunchCmd(mountpoint), TRUE)
  /\ pc' = "await"
  /\ UNCHANGED <<inVars, prompt, err, out, hist, exitstatus, terminated,
                 spawned, eof, alive, envVars>>

\* Lines 121-126: case 0, the success string.
AwaitSuccess ==
  /\ pc = "await"
  /\ HasMatch
  /\ MatchedCase = 0
  /\ Consume
  /\ successAt' = Len(sent)
  /\ pc' = "send_ctrlz"
  /\ UNCHANGED <<inVars, prompt, err, out, sent, getpassCalls, urlMatches,
                 lastUrl, fgAtSuspend, exitstatus, terminated, spawned, inq,
                 eof, alive, envVars>>

\* Mutant: the session is terminated but the error is not raised.
AwaitPromptNoRaise ==
  /\ pc = "await"
  /\ HasMatch
  /\ MatchedCase = 1
  /\ Consume
  /\ Terminate
  /\ err' = err
  /\ pc' = "send_ctrlz"
  /\ UNCHANGED <<inVars, prompt, out, sent, hist, exitstatus, spawned, inq,
                 fs, configDir, drv, job, wat, urlsEmitted>>

\* Lines 127-130: case 1, the expected prompt.
AwaitPrompt ==
  /\ pc = "await"
  /\ HasMatch
  /\ MatchedCase = 1
  /\ Consume
  /\ Terminate
  /\ err' = "mount failed"
  /\ pc' = "raised"
  /\ UNCHANGED <<inVars, prompt, out, sent, hist, exitstatus, spawned, inq,
                 fs, configDir, drv, job, wat, urlsEmitted>>

\* Lines 131-133: case 2, the authorization URL; the expected-prompt
\* variable is overwritten with the getpass message.
AwaitAuth ==
  /\ pc = "await"
  /\ HasMatch
  /\ MatchedCase = 2
  /\ Consume
  /\ prompt' = AuthMsg(MatchedTok.a)
  /\ lastUrl' = MatchedTok.a
  /\ urlMatches' = urlMatches + 1
  /\ pc' = "getpass"
  /\ UNCHANGED <<inVars, err, out, sent, getpassCalls, successAt,
                 fgAtSuspend,
                 exitstatus, terminated, spawned, inq, eof, alive, envVars>>

\* Mutant: the secret is sent without the newline.
GetpassSendNoNewline ==
  /\ pc = "getpass"
  /\ \E s \in Secrets, echoed \in BOOLEAN :
       Send(Cmd("secret", <<s>>, FALSE), echoed)
  /\ getpassCalls' = Append(getpassCalls, prompt)
  /\ pc' = "await"
  /\ UNCHANGED <<inVars, prompt, err, out, urlMatches, lastUrl, successAt,
                 fgAtSuspend,
                 exitstatus, terminated, spawned, eof, alive, envVars>>

\* Line 134: getpass returns a secret, which is sent with a newline.
GetpassSend ==
  /\ pc = "getpass"
  /\ \E s \in Secrets, echoed \in BOOLEAN : Send(SecretCmd(s), echoed)
  /\ getpassCalls' = Append(getpassCalls, prompt)
  /\ pc' = "await"
  /\ UNCHANGED <<inVars, prompt, err, out, urlMatches, lastUrl, successAt,
                 fgAtSuspend,
                 exitstatus, terminated, spawned, eof, alive, envVars>>

\* Line 135: ^Z is echoed by the terminal, which stops the foreground job.
SendCtrlZ ==
  /\ pc = "send_ctrlz"
  /\ sent' = Append(sent, CtrlZ)
  /\ buf' = IF eof THEN buf ELSE buf \o EchoOf(CtrlZ)
  /\ IF ~eof /\ sh = "fg" /\ job = "fg" /\ DriveAlive
     THEN job' = "stopped" /\ sh' = "notify" /\ fgAtSuspend' = "yes"
     ELSE fgAtSuspend' = "no" /\ UNCHANGED <<job, sh>>
  /\ pc' = "expect_stopped"
  /\ UNCHANGED <<inVars, prompt, err, out, getpassCalls, urlMatches,
                 lastUrl, successAt, exitstatus, terminated, spawned, inq,
                 eof, alive, fs, configDir, shStatus, drv, wat, urlsEmitted>>

\* Mutant: 'Stopped' is not waited for.
ExpectStoppedSkipped ==
  /\ pc = "expect_stopped"
  /\ pc' = "send_bg"
  /\ UNCHANGED <<inVars, prompt, err, out, sent, hist, exitstatus,
                 terminated, spawned, buf, inq, eof, alive, envVars>>

\* Line 136.
ExpectStopped ==
  /\ pc = "expect_stopped"
  /\ HasMatch
  /\ Consume
  /\ pc' = "send_bg"
  /\ UNCHANGED <<inVars, prompt, err, out, sent, hist, exitstatus,
                 terminated, spawned, inq, eof, alive, envVars>>

\* Mutant: 'exit' is sent as a line of its own after 'bg; disown'.
SendBgThenExit ==
  /\ pc = "send_bg"
  /\ sent' = sent \o <<BgCmd, Cmd("exit", <<>>, TRUE)>>
  /\ IF eof
     THEN buf' = buf /\ inq' = inq
     ELSE /\ buf' = buf \o EchoOf(BgCmd)
          /\ inq' = Append(inq, BgCmd)
  /\ pc' = "expect_eof"
  /\ UNCHANGED <<inVars, prompt, err, out, hist, exitstatus, terminated,
                 spawned, eof, alive, envVars>>

\* Line 137.
SendBg ==
  /\ pc = "send_bg"
  /\ Send(BgCmd, TRUE)
  /\ pc' = "expect_eof"
  /\ UNCHANGED <<inVars, prompt, err, out, hist, exitstatus, terminated,
                 spawned, eof, alive, envVars>>

\* Line 138: d.expect(EOF) returns once the stream has ended.
ExpectEOF ==
  /\ pc = "expect_eof"
  /\ eof
  /\ buf' = <<>>
  /\ pc' = "final"
  /\ UNCHANGED <<inVars, prompt, err, out, sent, hist, exitstatus,
                 terminated, spawned, inq, eof, alive, envVars>>

\* Mutant: the exit status is not asserted.
FinalChecksNoStatus ==
  /\ pc = "final"
  /\ IF alive
     THEN /\ err' = "AssertionError: not d.isalive()"
          /\ pc' = "raised"
          /\ UNCHANGED <<out, exitstatus>>
     ELSE /\ exitstatus' = shStatus
          /\ out' = Append(out, MountedMsg(mountpoint))
          /\ pc' = "done"
          /\ err' = err
  /\ UNCHANGED <<inVars, prompt, sent, hist, terminated, spawned, buf, inq,
                 eof, alive, envVars>>

\* Lines 139-141: the two assertions and the confirmation.
FinalChecks ==
  /\ pc = "final"
  /\ IF alive
     THEN /\ err' = "AssertionError: not d.isalive()"
          /\ pc' = "raised"
          /\ UNCHANGED <<out, exitstatus>>
     ELSE /\ exitstatus' = shStatus
          /\ IF shStatus = 0
             THEN /\ out' = Append(out, MountedMsg(mountpoint))
                  /\ pc' = "done"
                  /\ err' = err
             ELSE /\ err' = "AssertionError: d.exitstatus == 0"
                  /\ pc' = "raised"
                  /\ out' = out
  /\ UNCHANGED <<inVars, prompt, sent, hist, terminated, spawned, buf, inq,
                 eof, alive, envVars>>

\* Mutant: the watch has no timeout (timeout=None) and blocks.
ExpectTimeoutNever ==
  /\ pc \in ExpectPcs
  /\ FALSE
  /\ UNCHANGED vars

\* Any d.expect: nothing that matches arrives within the timeout.  The
\* exception propagates out of mount.
ExpectTimeout ==
  /\ pc \in ExpectPcs
  /\ ~eof
  /\ ~HasMatch
  /\ err' = "TIMEOUT"
  /\ pc' = "raised"
  /\ UNCHANGED <<inVars, prompt, out, sent, hist, exitstatus, terminated,
                 spawned, buf, inq, eof, alive, envVars>>

\* Any d.expect for a pattern: the stream ends with no match in it.
ExpectEOFError ==
  /\ pc \in ExpectPcs \ {"expect_eof"}
  /\ eof
  /\ ~HasMatch
  /\ err' = "EOF"
  /\ pc' = "raised"
  /\ UNCHANGED <<inVars, prompt, out, sent, hist, exitstatus, terminated,
                 spawned, buf, inq, eof, alive, envVars>>


\* -------------------------------------------------------------- environment
\* The processes behind the pseudo-terminal.  They write to the stream only
\* while it is open.
Emit(toks) == buf' = buf \o toks

drvOnly == <<inVars, drvVars, spawned>>

\* /bin/bash (line 69) starts and prints its default prompt.
ShellBoot ==
  /\ sh = "boot"
  /\ sh' = "idle"
  /\ Emit(<<BootTok>>)
  /\ UNCHANGED <<drvOnly, inq, eof, alive, fs, configDir, shStatus, drv, job,
                 wat, urlsEmitted>>

\* The idle shell reads the next line of its input.
ShellReads(c) == sh = "idle" /\ ~eof /\ inq # <<>> /\ Head(inq).cmd = c

\* export PS1="<marker>" (line 81): the next prompt is the marker.
ShellExport ==
  /\ ShellReads("export")
  /\ inq' = Tail(inq)
  /\ Emit(<<PromptTok>>)
  /\ UNCHANGED <<drvOnly, eof, alive, envVars>>

\* umount -f mnt || umount mnt; pkill -9 -x drive (line 87): a live mount
\* is removed, or the unmount fails and the directory stays as it is.
ShellCleanup ==
  /\ ShellReads("cleanup")
  /\ inq' = Tail(inq)
  /\ \/ /\ fs.fuse
        /\ fs' = [fs EXCEPT !.content = "empty", !.fuse = FALSE]
        /\ Emit(<<PromptTok>>)
     \/ /\ fs' = fs
        /\ Emit(<<OutTok("umount failed"), PromptTok>>)
  /\ UNCHANGED <<drvOnly, eof, alive, configDir, sh, shStatus, drv, job,
                 wat, urlsEmitted>>

\* ( while `sleep 0.5`; do ... done ) & (lines 106-109): the poll loop
\* starts as a background job.
ShellWatcher ==
  /\ ShellReads("watcher")
  /\ inq' = Tail(inq)
  /\ wat' = "polling"
  /\ Emit(<<OutTok("job started"), PromptTok>>)
  /\ UNCHANGED <<drvOnly, eof, alive, fs, configDir, sh, shStatus, drv, job,
                 urlsEmitted>>

\* The drive command line (lines 113-118) runs in the foreground.
ShellLaunch ==
  /\ ShellReads("launch")
  /\ inq' = Tail(inq)
  /\ drv' = "starting"
  /\ job' = "fg"
  /\ sh' = "fg"
  /\ UNCHANGED <<drvOnly, buf, eof, alive, fs, configDir, shStatus, wat,
                 urlsEmitted>>

\* A secret that reaches the shell instead of drive is not a command.
ShellStray ==
  /\ ShellReads("secret")
  /\ inq' = Tail(inq)
  /\ Emit(<<OutTok("command not found"), PromptTok>>)
  /\ UNCHANGED <<drvOnly, eof, alive, envVars>>

\* bg; disown; exit (line 137): the stopped job continues in the
\* background and the shell exits with the status of the last command.
ShellBgExit ==
  /\ ShellReads("bg")
  /\ inq' = Tail(inq)
  /\ IF job = "stopped" /\ DriveAlive
     THEN job' = "bg" /\ shStatus' = 0
     ELSE job' = job /\ shStatus' = 1
  /\ sh' = "exited"
  /\ eof' = TRUE
  /\ UNCHANGED <<drvOnly, buf, alive, fs, configDir, drv, wat, urlsEmitted>>

\* The shell notices that its foreground job was stopped by ^Z.
ShellNotifyStopped ==
  /\ sh = "notify"
  /\ sh' = "idle"
  /\ Emit(<<OutTok("stopped"), PromptTok>>)
  /\ UNCHANGED <<drvOnly, inq, eof, alive, fs, configDir, shStatus, drv, job,
                 wat, urlsEmitted>>

\* The shell process is killed from outside at any time.
ShellDie ==
  /\ sh \in {"boot", "idle", "fg", "notify"}
  /\ sh' = "exited"
  /\ shStatus' = -9
  /\ eof' = TRUE
  /\ UNCHANGED <<drvOnly, buf, inq, alive, fs, configDir, drv, job, wat,
                 urlsEmitted>>

\* The exited shell process is gone (isalive() is false from now on).
ShellGone ==
  /\ sh = "exited"
  /\ alive
  /\ alive' = FALSE
  /\ UNCHANGED <<drvOnly, buf, inq, eof, envVars>>

\* drive --console_auth is not authorized: it prints the URL line and
\* waits for the code.
DriveAskAuth ==
  /\ drv = "starting" /\ job = "fg" /\ ~eof
  /\ urlsEmitted < MaxAuth
  /\ \E u \in URLs : Emit(<<UrlTok(u)>>)
  /\ urlsEmitted' = urlsEmitted + 1
  /\ drv' = "waitcode"
  /\ UNCHANGED <<drvOnly, inq, eof, alive, fs, configDir, sh, shStatus, job,
                 wat>>

\* drive reads the line with the code.
DriveReadCode ==
  /\ drv = "waitcode" /\ job = "fg" /\ ~eof
  /\ inq # <<>>
  /\ inq' = Tail(inq)
  /\ drv' = "starting"
  /\ UNCHANGED <<drvOnly, buf, eof, alive, fs, configDir, sh, shStatus, job,
                 wat, urlsEmitted>>

\* drive mounts: the mountpoint is a directory holding 'My Drive'.
DriveMount ==
  /\ drv = "starting" /\ job = "fg" /\ ~eof
  /\ drv' = "serving"
  /\ fs' = [fs EXCEPT !.kind = "dir", !.content = "mydrive", !.fuse = TRUE]
  /\ UNCHANGED <<drvOnly, buf, inq, eof, alive, configDir, sh, shStatus, job,
                 wat, urlsEmitted>>

\* drive exits or crashes in the foreground: the shell prints its prompt.
DriveExit ==
  /\ DriveAlive /\ job = "fg" /\ sh = "fg" /\ ~eof
  /\ fs' = IF drv = "serving"
           THEN [fs EXCEPT !.content = "empty", !.fuse = FALSE]
           ELSE fs
  /\ drv' = "dead"
  /\ job' = "none"
  /\ sh' = "idle"
  /\ Emit(<<PromptTok>>)
  /\ UNCHANGED <<drvOnly, inq, eof, alive, configDir, shStatus, wat,
                 urlsEmitted>>

\* drive is killed while it is stopped.
DriveKilled ==
  /\ DriveAlive /\ job = "stopped" /\ ~eof
  /\ drv' = "dead"
  /\ job' = "none"
  /\ UNCHANGED <<drvOnly, buf, inq, eof, alive, fs, configDir, sh, shStatus,
                 wat, urlsEmitted>>

\* The poll loop of lines 106-109 finds the mountpoint a non-empty
\* directory, prints the success string and ends.
WatcherPrint ==
  /\ wat = "polling" /\ ~eof
  /\ isdir(fs) /\ listdir(fs) # {}
  /\ wat' = "done"
  /\ Emit(<<OutTok("success")>>)
  /\ UNCHANGED <<drvOnly, inq, eof, alive, fs, configDir, sh, shStatus, drv,
                 job, urlsEmitted>>

\* Mutant: the handoff is not verified: 'Stopped' is not awaited and the
\* exit status of the shell is not asserted.
NextNoHandoffChecks ==
  \/ MountEntry
  \/ SendExport
  \/ ExpectEcho
  \/ ExpectPrompt1
  \/ SendCleanup
  \/ ExpectPkill
  \/ ExpectPrompt2
  \/ Validate
  \/ SendWatcher
  \/ ExpectPrompt3
  \/ SendLaunch
  \/ AwaitSuccess
  \/ AwaitPrompt
  \/ AwaitAuth
  \/ GetpassSend
  \/ SendCtrlZ
  \/ ExpectStoppedSkipped
  \/ SendBg
  \/ ExpectEOF
  \/ FinalChecksNoStatus
  \/ ExpectTimeout
  \/ ExpectEOFError
  \/ ShellBoot
  \/ ShellExport
  \/ ShellCleanup
  \/ ShellWatcher
  \/ ShellLaunch
  \/ ShellStray
  \/ ShellBgExit
  \/ ShellNotifyStopped
  \/ ShellDie
  \/ ShellGone
  \/ DriveAskAuth
  \/ DriveReadCode
  \/ DriveMount
  \/ DriveExit
  \/ DriveKilled
  \/ WatcherPrint

Next ==
  \/ MountEntry
  \/ SendExport
  \/ ExpectEcho
  \/ ExpectPrompt1
  \/ SendCleanup
  \/ ExpectPkill
  \/ ExpectPrompt2
  \/ Validate
  \/ SendWatcher
  \/ ExpectPrompt3
  \/ SendLaunch
  \/ AwaitSuccess
  \/ AwaitPrompt
  \/ AwaitAuth
  \/ GetpassSend
  \/ SendCtrlZ
  \/ ExpectStopped
  \/ SendBg
  \/ ExpectEOF
  \/ FinalChecks
  \/ ExpectTimeout
  \/ ExpectEOFError
  \/ ShellBoot
  \/ ShellExport
  \/ ShellCleanup
  \/ ShellWatcher
  \/ ShellLaunch
  \/ ShellStray
  \/ ShellBgExit
  \/ ShellNotifyStopped
  \/ ShellDie
  \/ ShellGone
  \/ DriveAskAuth
  \/ DriveReadCode
  \/ DriveMount
  \/ DriveExit
  \/ DriveKilled
  \/ WatcherPrint

Spec == Init /\ [][Next]_vars

\* The statements of mount: the caller's thread runs them one after the
\* other, a d.expect returns or raises within its timeout (line 71) and
\* getpass returns.
DriverStep ==
  \/ MountEntry
  \/ SendExport
  \/ ExpectEcho
  \/ ExpectPrompt1
  \/ SendCleanup
  \/ ExpectPkill
  \/ ExpectPrompt2
  \/ Validate
  \/ SendWatcher
  \/ ExpectPrompt3
  \/ SendLaunch
  \/ AwaitSuccess
  \/ AwaitPrompt
  \/ AwaitAuth
  \/ GetpassSend
  \/ SendCtrlZ
  \/ ExpectStopped
  \/ SendBg
  \/ ExpectEOF
  \/ FinalChecks
  \/ ExpectTimeout
  \/ ExpectEOFError

\* The driver keeps running; nothing is assumed of the session.
FairSpec == Spec /\ WF_vars(DriverStep)

TypeOK ==
  /\ pc \in {"start", "send_export", "send_cleanup", "validate",
             "send_watcher", "send_launch", "getpass", "send_ctrlz",
             "send_bg", "final", "done", "raised"} \cup ExpectPcs
  /\ urlMatches \in 0..MaxAuth
  /\ urlsEmitted \in 0..MaxAuth


\* ============================================================== properties
Range(q) == {q[i] : i \in 1..Len(q)}
IsPrefix(a, b) == Len(a) <= Len(b) /\ SubSeq(b, 1, Len(a)) = a
SentCmds(c) == {i \in 1..Len(sent) : sent[i].cmd = c}
Printed(k) == \E i \in 1..Len(out) : out[i].kind = k

ValidationErrors ==
  {"Mountpoint must not be a symlink",
   "Mountpoint must not already contain files",
   "Mountpoint must either be a directory or not exist"}

\* The next thing in the stream that an await-outcome watch for the success
\* string, the shell's prompt marker and the URL line would find.
AwaitFirst == FirstMatch(buf, <<success, Marker, UrlRe>>)
PromptReappeared == AwaitFirst # 0 /\ buf[AwaitFirst] = PromptTok
SuccessIsNext == AwaitFirst # 0 /\ buf[AwaitFirst] = OutTok("success")
UrlIsNext == AwaitFirst # 0 /\ buf[AwaitFirst].t = "url"

\* C1: in every iteration of the await-outcome loop, before or after any
\* authorization exchange, when the shell's prompt marker is the next of
\* the three events in the stream the step of the driver out of the watch
\* ends in the 'mount failed' error with the session force-terminated.
C1_PromptIsFatal ==
  [][(pc = "await" /\ PromptReappeared /\ pc' # pc) =>
       (pc' = "raised" /\ err' = "mount failed" /\ terminated' /\ ~alive')]_vars

\* C2: whenever mount has raised an error after the shell was spawned, the
\* shell has been force-terminated and is not alive.
C2_FailureTerminates ==
  (pc = "raised" /\ spawned) => (terminated /\ ~alive)


\* The mountpoint is a symlink, a non-empty directory, or exists and is not
\* a directory.
BadMountpoint ==
  \/ fs.link
  \/ (fs.kind = "dir" /\ fs.content # "empty")
  \/ fs.kind = "file"

\* C3: when the checks of the mountpoint run on a symlink, a non-empty
\* directory or a path that exists and is no directory, mount raises a
\* validation error with the shell force-terminated; and in every state
\* with a validation error neither the success-watcher command nor the
\* launch command has been sent.
C3_ValidationFails ==
  /\ [][(pc = "validate" /\ BadMountpoint /\ pc' # pc) =>
          (pc' = "raised" /\ err' \in ValidationErrors /\ terminated'
             /\ ~alive')]_vars
  /\ [](err \in ValidationErrors =>
          (terminated /\ ~alive /\ SentCmds("watcher") = {}
             /\ SentCmds("launch") = {}))

C3_Witness ==
  /\ pc = "raised"
  /\ err = "Mountpoint must not be a symlink"
  /\ fs.link
  /\ terminated
  /\ ~alive

\* C4: every match of the URL line calls getpass once with a message that
\* holds the captured URL and sends the returned secret once, with a newline,
\* going back to the await-outcome watch; the number of getpass calls and of
\* secrets sent equals the number of URL matches; and after an exchange the
\* success string still takes the driver on to the suspend step.
C4_AuthExchange ==
  /\ [][(pc = "await" /\ UrlIsNext /\ pc' # pc) =>
          (pc' = "getpass" /\ prompt'[2] = buf[AwaitFirst].a
             /\ buf' = After(buf, AwaitFirst) /\ sent' = sent
             /\ urlMatches' = urlMatches + 1)]_vars
  /\ [][(pc = "getpass" /\ pc' # pc) =>
          (pc' = "await"
             /\ getpassCalls' = Append(getpassCalls, prompt)
             /\ Len(sent') = Len(sent) + 1
             /\ sent'[Len(sent')].cmd = "secret"
             /\ sent'[Len(sent')].nl)]_vars
  /\ [](/\ Cardinality(SentCmds("secret")) = Len(getpassCalls)
        /\ Len(getpassCalls) = urlMatches - (IF pc = "getpass" THEN 1 ELSE 0))
  /\ [][(pc = "await" /\ urlMatches > 0 /\ SuccessIsNext /\ pc' # pc) =>
          pc' = "send_ctrlz"]_vars

C4_Witness ==
  /\ pc = "done"
  /\ Printed("mounted")
  /\ urlMatches = 2
  /\ Len(getpassCalls) = 2
  /\ getpassCalls[1][2] \in URLs


\* What the driver has sent since it matched the success string.
AfterSuccess == SubSeq(sent, successAt + 1, Len(sent))

\* C5: once the success string is matched the driver sends ^Z and then
\* 'bg; disown; exit', each once and nothing else; a run that completes
\* prints the confirmation naming the mountpoint the binary was launched on.
C5_HandoffOrder ==
  /\ (successAt # -1 => IsPrefix(AfterSuccess, <<CtrlZ, BgCmd>>))
  /\ ((pc = "done" /\ spawned) => Printed("mounted"))
  /\ (Printed("mounted") =>
        /\ pc = "done" /\ err = "none"
        /\ successAt # -1
        /\ AfterSuccess = <<CtrlZ, BgCmd>>
        /\ SentCmds("ctrlz") = {Len(sent) - 1}
        /\ SentCmds("bg") = {Len(sent)}
        /\ Len(out) = 1
        /\ out[1].mnt[1] # "~"
        /\ \E i \in SentCmds("launch") : sent[i].arg = out[1].mnt)

C5_Witness ==
  /\ pc = "done"
  /\ Printed("mounted")
  /\ urlMatches = 0
  /\ AfterSuccess = <<CtrlZ, BgCmd>>

\* C6: the confirmation is printed only when the stream has ended, the
\* shell is gone and its exit status is zero; when the shell's status is not
\* zero the final checks raise an error and print nothing.
C6_SuccessNeedsCleanExit ==
  /\ [](Printed("mounted") => (eof /\ ~alive /\ shStatus = 0))
  /\ [][(pc = "final" /\ pc' # pc /\ shStatus # 0) =>
          (pc' = "raised" /\ err' # "none" /\ out' = out)]_vars

C6_Witness ==
  /\ pc = "raised"
  /\ err = "AssertionError: d.exitstatus == 0"
  /\ shStatus = 1
  /\ ~alive
  /\ ~Printed("mounted")

\* C7: with force_remount false and 'My Drive' present in the mountpoint,
\* mount spawns no shell, sends nothing, creates no directory, raises no
\* error and prints only the already-mounted message.
C7_AlreadyMountedNoOp ==
  /\ [][(pc = "start" /\ ~force_remount /\ fs.kind = "dir"
           /\ fs.content = "mydrive" /\ pc' # pc) =>
          (pc' = "done" /\ ~spawned' /\ ~alive' /\ sent' = <<>>
             /\ configDir' = configDir /\ fs' = fs /\ err' = "none"
             /\ Len(out') = 1 /\ out'[1].kind = "already")]_vars
  /\ []((pc = "done" /\ Printed("already")) =>
          (~spawned /\ sent = <<>> /\ err = "none" /\ Len(out) = 1))

C7_Witness ==
  /\ pc = "done"
  /\ Printed("already")
  /\ ~spawned
  /\ configDir = "absent"
  /\ fs.content = "mydrive"

\* C8 as stated: in a run that ends in a validation error no forced-unmount
\* and kill command was sent before the error.
C8_NoCleanupBeforeValidationError ==
  err \in ValidationErrors => SentCmds("cleanup") = {}

\* C8 amended: a validation error is raised only after the unmount-and-kill
\* command was sent (once, right after the export command) and before
\* anything else is sent.
C8_ValidationAfterCleanup ==
  err \in ValidationErrors => sent = <<ExportCmd, CleanupCmd(mountpoint)>>

C8_Witness ==
  /\ err = "Mountpoint must not already contain files"
  /\ SentCmds("cleanup") = {2}
  /\ pc = "raised"

\* C9: a session that was sent 'bg; disown; exit' is never force-terminated,
\* and a force-terminated session is sent neither ^Z nor 'bg; disown; exit'
\* afterwards.
C9_ReleasedOneWay ==
  /\ [](SentCmds("bg") # {} => ~terminated)
  /\ [][terminated => (/\ SentCmds("ctrlz")' = SentCmds("ctrlz")
                       /\ SentCmds("bg")' = SentCmds("bg"))]_vars

C9_Witness ==
  /\ terminated
  /\ err = "mount failed"
  /\ SentCmds("launch") # {}
  /\ SentCmds("bg") = {}

\* The driver is about to send (getpass returns and line 134 sends).
SendPcs == {"send_cleanup", "send_watcher", "send_launch", "getpass",
            "send_ctrlz", "send_bg"}
NoEchoPending == \A i \in 1..Len(buf) : ~IsEcho(buf[i])

\* C10: whenever the driver is about to send a line after the first, no
\* echo of an earlier line is left unconsumed in the output stream.
C10_OneInFlight == pc \in SendPcs => NoEchoPending

C10_Witness ==
  /\ pc = "send_bg"
  /\ ~eof
  /\ buf # <<>>
  /\ NoEchoPending
  /\ Len(sent) >= 5


Ended == pc \in {"done", "raised"}

\* C11: mount does not block forever: every run ends in the confirmation,
\* the already-mounted message or an error; a watch with nothing to match
\* and the stream still open can only end in the timeout error; and when the
\* spawned shell never gets to print anything the run ends in that error.
C11_MountEnds ==
  /\ <>Ended
  /\ [][(pc \in ExpectPcs /\ ~HasMatch /\ ~eof /\ pc' # pc) =>
          (pc' = "raised" /\ err' = "TIMEOUT")]_vars
  /\ ([](spawned => sh = "boot") =>
        <>(Ended /\ (spawned => err = "TIMEOUT")))

C11_Witness ==
  /\ pc = "raised"
  /\ err = "TIMEOUT"
  /\ sh = "boot"
  /\ SentCmds("export") # {}


\* C13: after the spawn the string the driver watches for as the shell's
\* prompt is the marker that 'export PS1=...' set.
C13_PromptUnchanged == spawned => prompt = Marker

\* The driver matches the marker and moves from one statement to the next.
MarkerStep(from, to) ==
  (pc' = to /\ pc' # pc) =>
    (/\ pc = from
     /\ FirstMatch(buf, <<Marker>>) # 0
     /\ buf' = After(buf, FirstMatch(buf, <<Marker>>)))

SetupCmds(m) == <<ExportCmd, CleanupCmd(m), WatcherCmd(m), LaunchCmd(m)>>

\* C14: the commands sent are, in this order and once each, the export, the
\* cleanup, the watcher and the launch command; the cleanup is sent only
\* after the marker was matched twice, the watcher only after 'pkill' and
\* the marker were matched and the mountpoint passed the checks, the launch
\* only after the marker was matched once more.
C14_SetupOrder ==
  /\ [](\/ IsPrefix(sent, SetupCmds(mountpoint))
        \/ /\ IsPrefix(SetupCmds(mountpoint), sent)
           /\ \A i \in 5..Len(sent) : sent[i].cmd \in {"secret", "ctrlz", "bg"})
  /\ [][/\ Len(sent') > Len(sent) =>
             pc = CASE Len(sent) = 0 -> "send_export"
                    [] Len(sent) = 1 -> "send_cleanup"
                    [] Len(sent) = 2 -> "send_watcher"
                    [] Len(sent) = 3 -> "send_launch"
                    [] OTHER -> pc
        /\ MarkerStep("expect_echo", "expect_prompt1")
        /\ MarkerStep("expect_prompt1", "send_cleanup")
        /\ ((pc' = "expect_prompt2" /\ pc' # pc) =>
              (pc = "expect_pkill" /\ FirstMatch(buf, <<PkillPat>>) # 0))
        /\ MarkerStep("expect_prompt2", "validate")
        /\ ((pc' = "send_watcher" /\ pc' # pc) =>
              (pc = "validate" /\ ~BadMountpoint))
        /\ MarkerStep("expect_prompt3", "send_launch")]_vars

C14_Witness ==
  /\ pc = "await"
  /\ sent = SetupCmds(mountpoint)
  /\ drv = "starting"

\* C15: in every run ^Z is sent only right after the await-outcome watch
\* matched the success string, and 'bg; disown; exit' only right after the
\* watch that follows ^Z matched 'Stopped'.
C15_HandoffGated ==
  [][/\ (Len(sent') > Len(sent) /\ sent'[Len(sent')] = CtrlZ) =>
          pc = "send_ctrlz"
     /\ (pc' = "send_ctrlz" /\ pc' # pc) =>
          (/\ pc = "await"
           /\ FirstMatch(buf, <<success, prompt, UrlRe>>) # 0
           /\ Matches(success, buf[FirstMatch(buf, <<success, prompt, UrlRe>>)]))
     /\ (Len(sent') > Len(sent) /\ sent'[Len(sent')] = BgCmd) =>
          (pc = "send_bg" /\ sent[Len(sent)] = CtrlZ)
     /\ (pc' = "send_bg" /\ pc' # pc) =>
          (/\ pc = "expect_stopped"
           /\ sent[Len(sent)] = CtrlZ
           /\ FirstMatch(buf, <<StoppedPat>>) # 0
           /\ buf[FirstMatch(buf, <<StoppedPat>>)] = OutTok("stopped"))]_vars

C15_Witness ==
  /\ pc = "raised"
  /\ err = "TIMEOUT"
  /\ SentCmds("bg") # {}
  /\ successAt # -1

WatcherEcho == EchoHead(WatcherCmd(mountpoint))

\* C16: the echo of the watcher command is consumed by the watch that
\* follows it: it is never in the stream the await-outcome loop reads, the
\* success match of the loop is the line the watcher printed, and the driver
\* gets to the suspend step only when the watcher has printed it.
C16_EchoIsNotSuccess ==
  /\ []((pc \in {"send_launch", "await", "getpass"}) =>
          \A i \in 1..Len(buf) : buf[i] # WatcherEcho)
  /\ [](successAt # -1 => wat = "done")
  /\ [][(pc = "await" /\ pc' = "send_ctrlz") =>
          (/\ FirstMatch(buf, <<success>>) # 0
           /\ buf[FirstMatch(buf, <<success>>)] = OutTok("success")
           /\ wat = "done")]_vars

C16_Witness ==
  /\ pc = "send_ctrlz"
  /\ successAt # -1
  /\ wat = "done"
  /\ SentCmds("watcher") # {}
  /\ \A i \in 1..Len(buf) : buf[i] # WatcherEcho

\* C17: the confirmation is printed only when drive was the running
\* foreground job of the shell at the moment ^Z was sent: when drive exited
\* after the success line and before ^Z, nothing is stopped and mount raises.
C17_SuccessNeedsLiveBinary == Printed("mounted") => fgAtSuspend = "yes"

C17_Witness ==
  /\ pc = "raised"
  /\ successAt # -1
  /\ fgAtSuspend = "no"
  /\ drv = "dead"
  /\ ~Printed("mounted")

====
